---- MODULE Spec2Model ----
(***************************************************************************)
(* A model of the INA219 driver (src/src/ina219.c) and of the calls a      *)
(* client such as main.c makes on it.  The I2C character device is the     *)
(* environment: every system call (open, ioctl, write, read, close)        *)
(* returns one of the results the kernel can give, chosen                  *)
(* nondeterministically, and is recorded in the trace of the call that     *)
(* made it.                                                                *)
(***************************************************************************)
EXTENDS Integers, Sequences, FiniteSets

VARIABLES
  phase,   \* "none": no instance yet; "live": created; "destroyed"; "aborted"
  self,    \* the fields of struct _INA219
  files,   \* the process's open descriptors: descriptor -> bound slave address
  out,     \* the caller's result variables passed to ina219_get_status
  last     \* the most recent call: its name, return value, error and system calls

vars == <<phase, self, files, out, last>>

(***************************************************************************)
(* Program constants.                                                      *)
(***************************************************************************)
SHUNT_REG == 1
BUS_REG == 2
INA_FULL_PERCENT == 99
INA219_FULLY_CHARGED == 0
INA219_CHARGING == 1
INA219_DISCHARGING == 2
I2C_ADDR == 66
BATTERY_VOLTAGE_100_PERCENT == 8260
BATTERY_VOLTAGE_0_PERCENT == 6000
BATTERY_CAPACITY == 2400
MIN_CHARGING_CURRENT == 10
SHUNT_MILLIOHMS == 100

(***************************************************************************)
(* Bounds of the model.                                                    *)
(***************************************************************************)
\* The number of descriptors the process may hold open (RLIMIT_NOFILE).
MaxOpenFiles == 2

\* The slave address of a descriptor on which ioctl(I2C_SLAVE) has not succeeded.
Unbound == -1

\* The configurations a caller passes to ina219_create: the one of main.c,
\* one whose minimum charging current is negative, one with a 1 ohm shunt,
\* and one for a single cell (3000 mV to 4200 mV, 3000 mA.h).
Configs ==
  { [shunt_milliohms |-> SHUNT_MILLIOHMS,
     battery_voltage_0_percent |-> BATTERY_VOLTAGE_0_PERCENT,
     battery_voltage_100_percent |-> BATTERY_VOLTAGE_100_PERCENT,
     battery_capacity |-> BATTERY_CAPACITY,
     min_charging_current |-> MIN_CHARGING_CURRENT],
    [shunt_milliohms |-> SHUNT_MILLIOHMS,
     battery_voltage_0_percent |-> BATTERY_VOLTAGE_0_PERCENT,
     battery_voltage_100_percent |-> BATTERY_VOLTAGE_100_PERCENT,
     battery_capacity |-> BATTERY_CAPACITY,
     min_charging_current |-> -1000],
    [shunt_milliohms |-> 1000,
     battery_voltage_0_percent |-> BATTERY_VOLTAGE_0_PERCENT,
     battery_voltage_100_percent |-> BATTERY_VOLTAGE_100_PERCENT,
     battery_capacity |-> BATTERY_CAPACITY,
     min_charging_current |-> MIN_CHARGING_CURRENT],
    [shunt_milliohms |-> SHUNT_MILLIOHMS,
     battery_voltage_0_percent |-> 3000,
     battery_voltage_100_percent |-> 4200,
     battery_capacity |-> 3000,
     min_charging_current |-> MIN_CHARGING_CURRENT] }

\* 16-bit words the bus-voltage register may hold (voltage * 2, low 3 bits flags):
\* 4000 mV, 7132 mV (+flag bits), 8236 mV, 8240 mV, 8300 mV, and 0xFFFA.
BusWords == {8000, 14269, 16472, 16480, 16600, 65530}

\* 16-bit words the shunt-voltage register may hold (two's complement, 10 uV):
\* 50 mV, -30 mV, 0, -0.99 mV, 9 mV, 10 mV.
ShuntWords == {5000, 62536, 0, 65437, 900, 1000}

\* The results of write (fd, buf, 1) and of read (fd, buf, 2).
WriteResults == {1, 0, -1}
ReadResults == {2, 1, -1}

\* The value of a caller's variable that has not been assigned (main.c declares
\* its result variables without initialising them, right before the call).
\* No result of the driver has this value.
Unassigned == -999999

CallerLocals ==
  [charge_status |-> Unassigned, battery_voltage_mv |-> Unassigned,
   percent_charged |-> Unassigned, battery_current_mA |-> Unassigned,
   minutes |-> Unassigned]

(***************************************************************************)
(* C arithmetic.                                                           *)
(***************************************************************************)
\* C's integer division truncates toward zero: the floor of the quotient,
\* plus one when the quotient is negative and inexact.
TruncDiv(a, b) ==
  LET q == IF b > 0 THEN a \div b ELSE (-a) \div (-b)
      inexact == IF b > 0 THEN a % b # 0 ELSE (-a) % (-b) # 0
  IN IF q < 0 /\ inexact THEN q + 1 ELSE q

\* Conversion of a 16-bit pattern to int16_t.
ToInt16(w) == IF w % 65536 >= 32768 THEN (w % 65536) - 65536 ELSE w % 65536

(***************************************************************************)
(* ina219_register_read_16.  io is what the device does: io.w the result   *)
(* of the write, io.r the result of the read, io.b0 and io.b1 the bytes    *)
(* a complete read delivers.                                               *)
(***************************************************************************)
\* A system call: its name, descriptor, argument (the register written, the
\* count read, the slave address), result, and the bytes a read delivered.
Syscall(call, fd, arg, res, buf) ==
  [call |-> call, fd |-> fd, arg |-> arg, res |-> res, buf |-> buf]

\* (buff[0] << 8) | buff[1], stored in an int16_t.
Assemble(b0, b1) == ToInt16((b0 * 256) + b1)

ina219_register_read_16(fd, reg, io) ==
  LET wr == Syscall("write", fd, reg, io.w, <<>>)
      rd == Syscall("read", fd, 2, io.r, IF io.r = 2 THEN <<io.b0, io.b1>> ELSE <<>>)
  IN IF io.w # 0
       THEN IF io.r = 2
              THEN [ret |-> TRUE, data |-> Assemble(io.b0, io.b1),
                    err |-> "none", sys |-> <<wr, rd>>]
              ELSE [ret |-> FALSE, data |-> 0, err |-> "read", sys |-> <<wr, rd>>]
       ELSE [ret |-> FALSE, data |-> 0, err |-> "write", sys |-> <<wr>>]

\* (regval & 0xFFF8) >> 1 on the int the int16_t promotes to.
DecodeBus(regval) == ((regval % 65536) - (regval % 8)) \div 2

DecodeShunt(regval) == TruncDiv(regval, 100)

\* mv is the caller's variable: it is assigned only when the read succeeds.
ina219_get_bus_voltage(fd, mv, io) ==
  LET r == ina219_register_read_16(fd, BUS_REG, io)
  IN [ret |-> r.ret, err |-> r.err, sys |-> r.sys,
      mv |-> IF r.ret THEN DecodeBus(r.data) ELSE mv]

ina219_get_shunt_voltage(fd, mv, io) ==
  LET r == ina219_register_read_16(fd, SHUNT_REG, io)
  IN [ret |-> r.ret, err |-> r.err, sys |-> r.sys,
      mv |-> IF r.ret THEN DecodeShunt(r.data) ELSE mv]

(***************************************************************************)
(* The arithmetic of ina219_get_status.                                    *)
(***************************************************************************)
\* PercentCharged without the limit to 100.
PercentChargedNoUpperLimit(mv, v0, v100) ==
  LET raw == TruncDiv(100 * (mv - v0), v100 - v0)
  IN IF raw < 0 THEN 0 ELSE raw

PercentCharged(mv, v0, v100) ==
  LET raw == TruncDiv(100 * (mv - v0), v100 - v0)
      hi == IF raw > 100 THEN 100 ELSE raw
  IN IF hi < 0 THEN 0 ELSE hi

BatteryCurrent(mv, shunt_milliohms) == TruncDiv(mv * 1000, shunt_milliohms)

\* ChargeStatus with the current compared by <= instead of <.
ChargeStatusInclusive(percent_charged, mA, min_charging_current) ==
  IF percent_charged >= INA_FULL_PERCENT \/ mA <= min_charging_current
    THEN INA219_FULLY_CHARGED
    ELSE IF mA > 0 THEN INA219_CHARGING ELSE INA219_DISCHARGING

\* ChargeStatus with the magnitude of the current compared with the minimum.
ChargeStatusMagnitude(percent_charged, mA, min_charging_current) ==
  IF \/ percent_charged >= INA_FULL_PERCENT
     \/ (IF mA < 0 THEN -mA ELSE mA) < min_charging_current
    THEN INA219_FULLY_CHARGED
    ELSE IF mA > 0 THEN INA219_CHARGING ELSE INA219_DISCHARGING

ChargeStatus(percent_charged, mA, min_charging_current) ==
  IF percent_charged >= INA_FULL_PERCENT \/ mA < min_charging_current
    THEN INA219_FULLY_CHARGED
    ELSE IF mA > 0 THEN INA219_CHARGING ELSE INA219_DISCHARGING

\* The values of int sec = 3600 * remaining_capacity / (double) mA.  With
\* mA = 0 the quotient is infinite or NaN and its conversion to int is
\* undefined: INT_MIN on x86, INT_MAX or 0 on ARM.
Seconds(remaining_capacity, mA) ==
  IF mA = 0
    THEN {(-2147483647) - 1, 2147483647, 0}
    ELSE {TruncDiv(3600 * remaining_capacity, mA)}

\* Minutes with the remaining capacities of the two branches exchanged.
MinutesExchanged(charge_status, percent_charged, mA, battery_capacity) ==
  IF charge_status = INA219_FULLY_CHARGED
    THEN {0}
    ELSE IF mA >= 0
      THEN { TruncDiv(sec, 60) :
               sec \in Seconds(TruncDiv(percent_charged * battery_capacity, 100), mA) }
      ELSE { TruncDiv(sec, 60) :
               sec \in Seconds(TruncDiv((100 - percent_charged) * battery_capacity, 100), -mA) }

\* The set of values *minutes can be given.
Minutes(charge_status, percent_charged, mA, battery_capacity) ==
  IF charge_status = INA219_FULLY_CHARGED
    THEN {0}
    ELSE IF mA >= 0
      THEN { TruncDiv(sec, 60) :
               sec \in Seconds(TruncDiv((100 - percent_charged) * battery_capacity, 100), mA) }
      ELSE { TruncDiv(sec, 60) :
               sec \in Seconds(TruncDiv(percent_charged * battery_capacity, 100), -mA) }

\* ina219_get_status with *battery_voltage_mv assigned before the result of
\* the bus read is tested.
GetStatusAssignsEarly(s, o, ioBus, ioShunt) ==
  LET b == ina219_get_bus_voltage(s.fd, 0, ioBus)
      pct == PercentCharged(b.mv, s.battery_voltage_0_percent,
                            s.battery_voltage_100_percent)
      o1 == [o EXCEPT !.battery_voltage_mv = b.mv, !.percent_charged = pct]
      sh == ina219_get_shunt_voltage(s.fd, b.mv, ioShunt)
      mA == BatteryCurrent(sh.mv, s.shunt_milliohms)
      st == ChargeStatus(pct, mA, s.min_charging_current)
  IN IF ~b.ret
       THEN {[ret |-> FALSE, err |-> b.err, sys |-> b.sys,
              out |-> [o EXCEPT !.battery_voltage_mv = b.mv]]}
       ELSE IF ~sh.ret
         THEN {[ret |-> FALSE, err |-> sh.err, out |-> o1, sys |-> b.sys \o sh.sys]}
         ELSE { [ret |-> TRUE, err |-> "none", sys |-> b.sys \o sh.sys,
                 out |-> [o1 EXCEPT !.battery_current_mA = mA,
                                    !.charge_status = st,
                                    !.minutes = m]] :
                m \in Minutes(st, pct, mA, s.battery_capacity) }

\* ina219_get_status with the shunt read not nested in the test of the bus read.
GetStatusReadsBoth(s, o, ioBus, ioShunt) ==
  LET b == ina219_get_bus_voltage(s.fd, 0, ioBus)
      pct == PercentCharged(b.mv, s.battery_voltage_0_percent,
                            s.battery_voltage_100_percent)
      o1 == [o EXCEPT !.battery_voltage_mv = b.mv, !.percent_charged = pct]
      sh == ina219_get_shunt_voltage(s.fd, b.mv, ioShunt)
      mA == BatteryCurrent(sh.mv, s.shunt_milliohms)
      st == ChargeStatus(pct, mA, s.min_charging_current)
  IN IF ~b.ret
       THEN {[ret |-> FALSE, err |-> b.err, out |-> o, sys |-> b.sys \o sh.sys]}
       ELSE IF ~sh.ret
         THEN {[ret |-> FALSE, err |-> sh.err, out |-> o1, sys |-> b.sys \o sh.sys]}
         ELSE { [ret |-> TRUE, err |-> "none", sys |-> b.sys \o sh.sys,
                 out |-> [o1 EXCEPT !.battery_current_mA = mA,
                                    !.charge_status = st,
                                    !.minutes = m]] :
                m \in Minutes(st, pct, mA, s.battery_capacity) }

\* ina219_get_status: the set of its possible results, each with the return
\* value, the error, the caller's variables afterwards and the system calls.
ina219_get_status(s, o, ioBus, ioShunt) ==
  LET b == ina219_get_bus_voltage(s.fd, 0, ioBus)
  IN IF ~b.ret
       THEN {[ret |-> FALSE, err |-> b.err, out |-> o, sys |-> b.sys]}
       ELSE
         LET pct == PercentCharged(b.mv, s.battery_voltage_0_percent,
                                   s.battery_voltage_100_percent)
             o1 == [o EXCEPT !.battery_voltage_mv = b.mv, !.percent_charged = pct]
             sh == ina219_get_shunt_voltage(s.fd, b.mv, ioShunt)
         IN IF ~sh.ret
              THEN {[ret |-> FALSE, err |-> sh.err, out |-> o1, sys |-> b.sys \o sh.sys]}
              ELSE
                LET mA == BatteryCurrent(sh.mv, s.shunt_milliohms)
                    st == ChargeStatus(pct, mA, s.min_charging_current)
                IN { [ret |-> TRUE, err |-> "none", sys |-> b.sys \o sh.sys,
                      out |-> [o1 EXCEPT !.battery_current_mA = mA,
                                         !.charge_status = st,
                                         !.minutes = m]] :
                     m \in Minutes(st, pct, mA, s.battery_capacity) }

(***************************************************************************)
(* The device's behaviours in one register transaction.                    *)
(***************************************************************************)
Io(w, r, word) == [w |-> w, r |-> r, b0 |-> word \div 256, b1 |-> word % 256]

\* A write of 0 bytes ends the transaction; a short read delivers no word.
\* After a write that reported an error the read fails too, or delivers
\* some word.
IoOutcomes(words) ==
  {Io(0, -1, 0)}
    \cup {Io(1, r, 0) : r \in ReadResults \ {2}}
    \cup {Io(1, 2, word) : word \in words}
    \cup {Io(-1, -1, 0), Io(-1, 2, CHOOSE word \in words : TRUE)}

IoOk(io) == io.w # 0 /\ io.r = 2

(***************************************************************************)
(* The kernel's descriptor table.                                          *)
(***************************************************************************)
Descriptors == 0 .. (MaxOpenFiles - 1)

NoFiles == [d \in {} |-> Unbound]

\* open returns the lowest free descriptor.
LowestFree(f) == CHOOSE d \in Descriptors \ DOMAIN f :
                   \A e \in Descriptors \ DOMAIN f : d <= e

OpenFile(f, d) == [e \in DOMAIN f \cup {d} |-> IF e = d THEN Unbound ELSE f[e]]

CloseFile(f, d) == [e \in DOMAIN f \ {d} |-> f[e]]

(***************************************************************************)
(* State.                                                                  *)
(***************************************************************************)
Call(op, ret, err, sys) == [op |-> op, ret |-> ret, err |-> err, sys |-> sys]

\* Before ina219_create there is no instance; the caller's result variables
\* are not yet assigned.
Init ==
  /\ phase = "none"
  /\ self = [fd |-> -1, i2c_addr |-> 0, shunt_milliohms |-> 0,
             battery_voltage_0_percent |-> 0, battery_voltage_100_percent |-> 0,
             battery_capacity |-> 0, min_charging_current |-> 0]
  /\ files = NoFiles
  /\ out = CallerLocals
  /\ last = Call("none", TRUE, "none", <<>>)

ina219_create ==
  /\ phase = "none"
  /\ \E c \in Configs :
       self' = [fd |-> -1, i2c_addr |-> I2C_ADDR,
                shunt_milliohms |-> c.shunt_milliohms,
                battery_voltage_0_percent |-> c.battery_voltage_0_percent,
                battery_voltage_100_percent |-> c.battery_voltage_100_percent,
                battery_capacity |-> c.battery_capacity,
                min_charging_current |-> c.min_charging_current]
  /\ phase' = "live"
  /\ last' = Call("create", TRUE, "none", <<>>)
  /\ UNCHANGED <<files, out>>

\* ina219_init: the result for each outcome of open (fd, or -1) and ioctl.
InitResult(s, f, fd, bound) ==
  IF fd >= 0
    THEN IF bound
      THEN [self |-> [s EXCEPT !.fd = fd],
            files |-> [OpenFile(f, fd) EXCEPT ![fd] = s.i2c_addr],
            ret |-> TRUE, err |-> "none",
            sys |-> <<Syscall("open", fd, 0, fd, <<>>),
                      Syscall("ioctl", fd, s.i2c_addr, 0, <<>>)>>]
      ELSE [self |-> [s EXCEPT !.fd = fd],
            files |-> OpenFile(f, fd),
            ret |-> FALSE, err |-> "ioctl",
            sys |-> <<Syscall("open", fd, 0, fd, <<>>),
                      Syscall("ioctl", fd, s.i2c_addr, -1, <<>>)>>]
    ELSE [self |-> [s EXCEPT !.fd = fd], files |-> f,
          ret |-> FALSE, err |-> "open",
          sys |-> <<Syscall("open", fd, 0, fd, <<>>)>>]

ina219_init ==
  /\ phase = "live"
  /\ \E fd \in (IF Cardinality(DOMAIN files) < MaxOpenFiles
                  THEN {LowestFree(files), -1} ELSE {-1}) :
       \E bound \in (IF fd >= 0 THEN BOOLEAN ELSE {FALSE}) :
         LET r == InitResult(self, files, fd, bound)
         IN /\ self' = r.self
            /\ files' = r.files
            /\ last' = Call("init", r.ret, r.err, r.sys)
  /\ UNCHANGED <<phase, out>>

\* UninitResult without the assignment self->fd = -1.
UninitKeepsFd(s, f) ==
  IF s.fd >= 0
    THEN [self |-> s, files |-> CloseFile(f, s.fd),
          sys |-> <<Syscall("close", s.fd, 0, 0, <<>>)>>]
    ELSE [self |-> s, files |-> f, sys |-> <<>>]

\* ina219_uninit: the instance, the descriptor table and the system calls.
UninitResult(s, f) ==
  IF s.fd >= 0
    THEN [self |-> [s EXCEPT !.fd = -1], files |-> CloseFile(f, s.fd),
          sys |-> <<Syscall("close", s.fd, 0, 0, <<>>)>>]
    ELSE [self |-> [s EXCEPT !.fd = -1], files |-> f, sys |-> <<>>]

ina219_uninit ==
  /\ phase = "live"
  /\ LET r == UninitResult(self, files)
     IN /\ self' = r.self
        /\ files' = r.files
        /\ last' = Call("uninit", TRUE, "none", r.sys)
  /\ UNCHANGED <<phase, out>>

\* ina219_destroy calls ina219_uninit, then frees the instance.
ina219_destroy ==
  /\ phase = "live"
  /\ LET r == UninitResult(self, files)
     IN /\ self' = r.self
        /\ files' = r.files
        /\ last' = Call("destroy", TRUE, "none", r.sys)
  /\ phase' = "destroyed"
  /\ UNCHANGED out

\* A call of ina219_get_status on an instance whose fd is >= 0, with freshly
\* declared result variables.
GetStatus ==
  /\ phase = "live"
  /\ self.fd >= 0
  /\ \E ioBus \in IoOutcomes(BusWords) :
       \E ioShunt \in (IF IoOk(ioBus) THEN IoOutcomes(ShuntWords) ELSE {Io(1, 2, 0)}) :
         \E r \in ina219_get_status(self, CallerLocals, ioBus, ioShunt) :
           /\ out' = r.out
           /\ last' = Call("get_status", r.ret, r.err, r.sys)
  /\ UNCHANGED <<phase, self, files>>

\* GetBusVoltage without assert (self->fd >= 0).
GetBusVoltageUnchecked ==
  /\ phase = "live"
  /\ \E io \in IoOutcomes(BusWords) :
       LET r == ina219_get_bus_voltage(self.fd, Unassigned, io)
       IN /\ out' = [CallerLocals EXCEPT !.battery_voltage_mv = r.mv]
          /\ last' = Call("get_bus_voltage", r.ret, r.err, r.sys)
  /\ UNCHANGED <<phase, self, files>>

\* A call of ina219_get_bus_voltage with a fresh mv.
GetBusVoltage ==
  /\ phase = "live"
  /\ self.fd >= 0
  /\ \E io \in IoOutcomes(BusWords) :
       LET r == ina219_get_bus_voltage(self.fd, Unassigned, io)
       IN /\ out' = [CallerLocals EXCEPT !.battery_voltage_mv = r.mv]
          /\ last' = Call("get_bus_voltage", r.ret, r.err, r.sys)
  /\ UNCHANGED <<phase, self, files>>

\* A call of ina219_get_shunt_voltage with a fresh mv.
GetShuntVoltage ==
  /\ phase = "live"
  /\ self.fd >= 0
  /\ \E io \in IoOutcomes(ShuntWords) :
       LET r == ina219_get_shunt_voltage(self.fd, Unassigned, io)
       IN /\ out' = [CallerLocals EXCEPT !.battery_voltage_mv = r.mv]
          /\ last' = Call("get_shunt_voltage", r.ret, r.err, r.sys)
  /\ UNCHANGED <<phase, self, files>>

\* assert (self->fd >= 0) fails: the process aborts and the kernel closes
\* its descriptors.
AssertFails ==
  /\ phase = "live"
  /\ self.fd < 0
  /\ \E op \in {"get_status", "get_bus_voltage", "get_shunt_voltage"} :
       last' = Call(op, FALSE, "assert", <<>>)
  /\ phase' = "aborted"
  /\ files' = NoFiles
  /\ UNCHANGED <<self, out>>

Next ==
  \/ ina219_create
  \/ ina219_init
  \/ ina219_uninit
  \/ ina219_destroy
  \/ GetStatus
  \/ GetBusVoltage
  \/ GetShuntVoltage
  \/ AssertFails

Spec == Init /\ [][Next]_vars

TypeOK ==
  /\ phase \in {"none", "live", "destroyed", "aborted"}
  /\ self.fd \in Descriptors \cup {-1}
  /\ DOMAIN files \subseteq Descriptors

(***************************************************************************)
(* Properties.                                                             *)
(***************************************************************************)
\* The last call was ina219_get_status and it ran (no assertion failed).
StatusRan == last.op = "get_status" /\ last.err # "assert"

\* The last call was ina219_get_status and it returned TRUE.
StatusOk == last.op = "get_status" /\ last.ret

\* The instance has the configuration of main.c.
MainConfig ==
  /\ self.shunt_milliohms = SHUNT_MILLIOHMS
  /\ self.battery_voltage_0_percent = BATTERY_VOLTAGE_0_PERCENT
  /\ self.battery_voltage_100_percent = BATTERY_VOLTAGE_100_PERCENT
  /\ self.battery_capacity = BATTERY_CAPACITY
  /\ self.min_charging_current = MIN_CHARGING_CURRENT

\* The call wrote the register index reg to the bus.
Wrote(reg) ==
  \E i \in 1 .. Len(last.sys) : last.sys[i].call = "write" /\ last.sys[i].arg = reg

\* The first register read of the call failed: its write wrote 0 bytes, or its
\* read did not deliver 2 bytes.
FirstReadFailed ==
  \/ Len(last.sys) < 2
  \/ last.sys[1].res = 0
  \/ last.sys[2].res # 2

\* The call ran on a handle bound to the configured address and each of its
\* writes wrote its byte.
CleanIo ==
  /\ self.fd \in DOMAIN files
  /\ files[self.fd] = self.i2c_addr
  /\ \A i \in 1 .. Len(last.sys) : last.sys[i].call = "write" => last.sys[i].res = 1

C2_NegativeCurrentDischarging ==
  (StatusOk /\ CleanIo) =>
    /\ (MainConfig /\ out.percent_charged = 50 /\ out.battery_current_mA = -300)
         => (out.charge_status = INA219_DISCHARGING /\ out.minutes = 240)
    /\ (out.battery_current_mA < 0 /\ out.percent_charged < 99)
         => out.charge_status = INA219_DISCHARGING

\* C3 as stated: a failed ina219_get_status leaves all five result variables
\* of the caller as they were before the call (stated for calls on a bound
\* handle whose writes all wrote their byte).
C3_AllOrNothing ==
  (StatusRan /\ ~last.ret /\ CleanIo) => out = CallerLocals

\* C3 as amended: a failed ina219_get_status leaves the current, the charge
\* status and the minutes as they were; when the bus read failed it leaves the
\* voltage and the percentage too, and when the shunt read failed it has
\* assigned the decoded bus voltage and its clamped percentage.
C3_FailureLeavesLaterResults ==
  (StatusRan /\ ~last.ret) =>
    /\ out.battery_current_mA = Unassigned
    /\ out.charge_status = Unassigned
    /\ out.minutes = Unassigned
    /\ FirstReadFailed => out = CallerLocals
    /\ ~FirstReadFailed =>
         /\ Wrote(SHUNT_REG)
         /\ out.battery_voltage_mv = DecodeBus(Assemble(last.sys[2].buf[1], last.sys[2].buf[2]))
         /\ out.percent_charged \in 0 .. 100

\* A call that failed at the shunt read, after a bus read that succeeded.
C3_Witness ==
  /\ StatusRan
  /\ ~last.ret
  /\ ~FirstReadFailed
  /\ Wrote(SHUNT_REG)
  /\ out.battery_voltage_mv # Unassigned

\* C4: when the read of the bus-voltage register fails, ina219_get_status
\* returns FALSE with the error of that read and the call makes no system call
\* for the shunt-voltage register; the shunt register index is written only
\* after a write of the bus register index and a complete 2-byte read.
C4_NoShuntAfterBusFailure ==
  StatusRan =>
    /\ Len(last.sys) >= 1
    /\ last.sys[1].call = "write"
    /\ last.sys[1].arg = BUS_REG
    /\ FirstReadFailed =>
         /\ ~last.ret
         /\ last.err = (IF last.sys[1].res = 0 THEN "write" ELSE "read")
         /\ ~Wrote(SHUNT_REG)
         /\ Len(last.sys) <= 2
    /\ \A i \in 1 .. Len(last.sys) :
         (last.sys[i].call = "write" /\ last.sys[i].arg = SHUNT_REG) =>
           /\ i = 3
           /\ last.sys[1].res # 0
           /\ last.sys[2].call = "read"
           /\ last.sys[2].res = 2

\* A call whose bus read failed at the 2-byte read.
C4_Witness ==
  /\ StatusRan
  /\ ~last.ret
  /\ Len(last.sys) = 2
  /\ last.sys[2].call = "read"
  /\ last.sys[2].res # 2
  /\ last.err = "read"

\* C5: in every state the handle is closed (fd = -1) or open and bound to the
\* configured address, and after a failed ina219_init it is closed.
C5_ClosedOrBound ==
  /\ \/ self.fd = -1
     \/ (self.fd \in DOMAIN files /\ files[self.fd] = self.i2c_addr)
  /\ (last.op = "init" /\ ~last.ret) => self.fd = -1

\* C6: the descriptors the driver opened and has not closed are none or just
\* the one stored in the instance, and none after ina219_uninit or
\* ina219_destroy (stated for the states in which every open descriptor was
\* bound by a successful ina219_init).
C6_NoDescriptorLeak ==
  (\A d \in DOMAIN files : files[d] = self.i2c_addr) =>
    /\ DOMAIN files \subseteq {self.fd}
    /\ last.op \in {"uninit", "destroy"} => DOMAIN files = {}

\* The last call was a single register read that ran.
ReadRan ==
  last.op \in {"get_bus_voltage", "get_shunt_voltage"} /\ last.err # "assert"

\* C7: a register read returns FALSE when the write of the register index did
\* not write its byte (result -1 or 0) and when the read delivered fewer than
\* 2 bytes; it returns TRUE, with the big-endian value of the two bytes, only
\* when the write wrote 1 byte and the read delivered 2; and the read is made
\* only after a write that wrote its byte (stated for a bound handle).
C7_ReadFailsUnlessWriteCompleted ==
  (ReadRan /\ self.fd \in DOMAIN files /\ files[self.fd] = self.i2c_addr) =>
    LET sys == last.sys
        written == sys[1].res = 1
    IN /\ sys[1].call = "write"
       /\ ~written => ~last.ret
       /\ (Len(sys) = 2 /\ sys[2].res < 2) => ~last.ret
       /\ last.ret <=> (written /\ Len(sys) = 2 /\ sys[2].res = 2)
       /\ (last.ret /\ last.op = "get_bus_voltage") =>
            out.battery_voltage_mv =
              DecodeBus(ToInt16((sys[2].buf[1] * 256) + sys[2].buf[2]))
       /\ Len(sys) = 2 => written

\* C8: ina219_uninit and ina219_destroy leave fd = -1; on a closed handle they
\* make no system call and change neither the instance nor the descriptor
\* table (so a second ina219_uninit changes nothing); on an open handle they
\* close that descriptor, once.
C8_UninitIdempotent ==
  /\ [](last.op \in {"uninit", "destroy"} => self.fd = -1)
  /\ [][ last'.op \in {"uninit", "destroy"} =>
           IF self.fd = -1
             THEN /\ last'.sys = <<>>
                  /\ self' = self
                  /\ files' = files
             ELSE /\ Len(last'.sys) = 1
                  /\ last'.sys[1].call = "close"
                  /\ last'.sys[1].fd = self.fd
                  /\ self.fd \in DOMAIN files
                  /\ DOMAIN files' = DOMAIN files \ {self.fd}
                  /\ self'.fd = -1 ]_vars

\* An ina219_uninit on a handle that was already closed.
C8_Witness ==
  /\ last.op = "uninit"
  /\ last.sys = <<>>
  /\ self.fd = -1

\* C9: after an ina219_get_status whose bus read succeeded, the percentage is
\* the truncated quotient 100 * (v - v0) / (v100 - v0) limited to 0 .. 100: 0
\* when v < v0, 100 when v > v100; and a successful call classifies with this
\* limited value.
C9_PercentClamped ==
  (StatusRan /\ ~FirstReadFailed /\
   self.battery_voltage_100_percent > self.battery_voltage_0_percent) =>
    LET v == out.battery_voltage_mv
        n == 100 * (v - self.battery_voltage_0_percent)
        d == self.battery_voltage_100_percent - self.battery_voltage_0_percent
        p == out.percent_charged
    IN /\ p \in 0 .. 100
       /\ p = 0 <=> n < d
       /\ p = 100 <=> n >= 100 * d
       /\ (0 < p /\ p < 100) => (p * d <= n /\ n < (p + 1) * d)
       /\ v < self.battery_voltage_0_percent => p = 0
       /\ v > self.battery_voltage_100_percent => p = 100
       /\ (last.ret /\ p >= 99) => out.charge_status = INA219_FULLY_CHARGED
       /\ (last.ret /\ p < 99 /\ out.battery_current_mA >= self.min_charging_current)
            => out.charge_status # INA219_FULLY_CHARGED

\* A successful call with a bus voltage above the 100 % voltage.
C9_Witness ==
  /\ StatusOk
  /\ out.battery_voltage_mv > self.battery_voltage_100_percent
  /\ out.percent_charged = 100
  /\ out.charge_status = INA219_FULLY_CHARGED

Readers == {"get_bus_voltage", "get_shunt_voltage", "get_status"}

\* C11: the readers do bus I/O only on an open handle.  A reader called while
\* the descriptor stored in the instance is open makes every write and read
\* on that descriptor; a reader called while the handle is closed (fd = -1)
\* stops at the assertion: it makes no system call, returns nothing and
\* assigns none of the caller's variables.  A stored descriptor >= 0 is
\* always an open one.
C11_NoIoOnClosedHandle ==
  /\ [](self.fd >= 0 => self.fd \in DOMAIN files)
  /\ [](last.op \in Readers =>
          \A i \in 1 .. Len(last.sys) :
            last.sys[i].call \in {"write", "read"} /\ last.sys[i].fd >= 0)
  /\ [][ last'.op \in Readers =>
           IF self.fd \in DOMAIN files
             THEN /\ last'.err # "assert"
                  /\ Len(last'.sys) >= 1
                  /\ \A i \in 1 .. Len(last'.sys) : last'.sys[i].fd = self.fd
             ELSE /\ self.fd = -1
                  /\ last'.err = "assert"
                  /\ ~last'.ret
                  /\ last'.sys = <<>>
                  /\ out' = out
                  /\ phase' = "aborted" ]_vars

\* A reader was called on a closed handle and stopped at the assertion.
C11_Witness ==
  /\ last.op \in Readers
  /\ last.err = "assert"
  /\ last.sys = <<>>
  /\ self.fd = -1
  /\ phase = "aborted"

====
